---------------------------- MODULE Spec2Model ----------------------------
(***************************************************************************)
(* Model of impl/src/features.rs: per-platform feature discovery with      *)
(* cargo-tree (get_per_platform_features, run_cargo_tree,                  *)
(* make_package_map, process_line, find_package_id, transpose_keys) and    *)
(* the consolidation of the per-platform sets (consolidate_features).      *)
(*                                                                         *)
(* A Rust String is a sequence of characters; a character is a one-letter  *)
(* TLA+ string, except "U+00E9", which stands for a two-byte character.    *)
(* Offsets are byte offsets counted from 0, as in Rust.  A HashSet is a    *)
(* set, a HashMap a function, a Vec a sequence.  The order in which a      *)
(* HashMap or HashSet is iterated is unspecified in Rust: every loop over  *)
(* one takes its order as an argument that the actions choose freely.      *)
(***************************************************************************)
EXTENDS Integers, Sequences, FiniteSets, TLC

VARIABLES
  line,            \* SpecLine: the argument s of process_line
  parsed,          \* SpecLine: what process_line(s) produced
  pkg,             \* SpecConsolidate: the platform -> feature set map of consolidate_features
  consolidated,    \* SpecConsolidate: the Features value returned
  settings,        \* Spec: RazeSettings.target and RazeSettings.targets
  triples,         \* Spec: the triples the loop of get_per_platform_features has not visited
  tree_output,     \* Spec: triple -> what cargo tree did when run for it
  calls,           \* Spec: the run_cargo_tree calls made so far, in order, with their results
  triple_map,      \* Spec: triple -> (PackageId -> feature set)
  unconsolidated,  \* Spec: the value of transpose_keys(triple_map), once computed
  m,               \* Spec: the map returned in Ok(m), once built
  pc               \* Spec: position of get_per_platform_features

vars == <<line, parsed, pkg, consolidated, settings, triples, tree_output,
          calls, triple_map, unconsolidated, m, pc>>

None == [kind |-> "None"]

Some(v) == [kind |-> "Some", value |-> v]

Range(f) == {f[x] : x \in DOMAIN f}

(***************************************************************************)
(* Strings                                                                 *)
(***************************************************************************)

\* The characters of the model in the order of their UTF-8 encodings.
CharTable ==
  <<" ", "(", ")", "*", ",", ".", "0", "1", "2", "L", "W", "a", "b", "c",
    "d", "e", "h", "i", "l", "m", "n", "o", "p", "q", "r", "s", "u", "v",
    "w", "x", "y", "|", "U+00E9">>

Ord(c) == CHOOSE i \in 1..Len(CharTable) : CharTable[i] = c

\* Bytes of the UTF-8 encoding of a character.
Width(c) == IF c = "U+00E9" THEN 2 ELSE 1

Digits == {"0", "1", "2"}

RECURSIVE ByteLen(_)
ByteLen(s) == IF s = <<>> THEN 0 ELSE Width(Head(s)) + ByteLen(Tail(s))

\* str::chars().count()
CharCount(s) == Len(s)

\* str::is_char_boundary
IsCharBoundary(s, b) == \E k \in 0..Len(s) : ByteLen(SubSeq(s, 1, k)) = b

\* Number of characters in the first b bytes (b a character boundary).
CharsIn(s, b) == CHOOSE k \in 0..Len(s) : ByteLen(SubSeq(s, 1, k)) = b

\* str::find with a one-character pattern: the byte offset of the first match.
RECURSIVE FindFrom(_, _, _)
FindFrom(s, c, off) ==
  IF s = <<>> THEN None
  ELSE IF Head(s) = c THEN Some(off)
  ELSE FindFrom(Tail(s), c, off + Width(Head(s)))

Find(s, c) == FindFrom(s, c, 0)

\* str::split_at: panics when mid is past the end or inside a character.
SplitAt(s, mid) ==
  IF mid > ByteLen(s) \/ ~IsCharBoundary(s, mid)
  THEN [kind |-> "Panic"]
  ELSE LET k == CharsIn(s, mid)
       IN  [kind |-> "Ok", left |-> SubSeq(s, 1, k), right |-> SubSeq(s, k + 1, Len(s))]

\* str::replace(c, "")
Remove(s, c) == SelectSeq(s, LAMBDA x : x # c)

\* str::split(c): the pieces between the occurrences of c, empty ones included.
RECURSIVE SplitOn(_, _, _)
SplitOn(s, c, cur) ==
  IF s = <<>> THEN {cur}
  ELSE IF Head(s) = c THEN {cur} \cup SplitOn(Tail(s), c, <<>>)
  ELSE SplitOn(Tail(s), c, Append(cur, Head(s)))

\* str::trim_start_matches(|c| c == ' ' || c == 'v')
RECURSIVE TrimStartMatches(_, _)
TrimStartMatches(s, cs) ==
  IF s # <<>> /\ Head(s) \in cs THEN TrimStartMatches(Tail(s), cs) ELSE s

RECURSIVE TrimEndMatches(_, _)
TrimEndMatches(s, cs) ==
  IF s # <<>> /\ s[Len(s)] \in cs THEN TrimEndMatches(SubSeq(s, 1, Len(s) - 1), cs) ELSE s

\* str::trim
Trim(s) == TrimEndMatches(TrimStartMatches(s, {" "}), {" "})

\* str::ends_with
EndsWith(s, suffix) ==
  Len(s) >= Len(suffix) /\ SubSeq(s, Len(s) - Len(suffix) + 1, Len(s)) = suffix

\* Ord for str: byte-wise lexicographic comparison.
RECURSIVE StrLess(_, _)
StrLess(a, b) ==
  IF b = <<>> THEN FALSE
  ELSE IF a = <<>> THEN TRUE
  ELSE IF Head(a) # Head(b) THEN Ord(Head(a)) < Ord(Head(b))
  ELSE StrLess(Tail(a), Tail(b))

\* Vec<String>::sort
RECURSIVE InsertStr(_, _)
InsertStr(v, x) ==
  IF v = <<>> THEN <<x>>
  ELSE IF StrLess(x, Head(v)) THEN <<x>> \o v
  ELSE <<Head(v)>> \o InsertStr(Tail(v), x)

RECURSIVE SortStrings(_)
SortStrings(v) ==
  IF v = <<>> THEN <<>> ELSE InsertStr(SortStrings(SubSeq(v, 1, Len(v) - 1)), v[Len(v)])

\* Vec::reverse
Reverse(v) == [i \in 1..Len(v) |-> v[Len(v) + 1 - i]]

\* The elements of a set collected into a Vec, in one of the possible orders.
RECURSIVE Collect(_)
Collect(S) ==
  IF S = {} THEN <<>>
  ELSE LET x == CHOOSE y \in S : TRUE IN <<x>> \o Collect(S \ {x})

\* The orders in which a hash container holding the elements S can be iterated.
Orders(S) == {o \in [1..Cardinality(S) -> S] : Range(o) = S}

(***************************************************************************)
(* process_line                                                            *)
(***************************************************************************)

\* One identifier of a version: digits, without a leading zero.
IsNumericIdentifier(t) ==
  /\ t # <<>>
  /\ \A i \in 1..Len(t) : t[i] \in Digits
  /\ (Len(t) > 1 => t[1] # "0")

\* The pieces of s between dots, in order.
RECURSIVE DotParts(_, _)
DotParts(s, cur) ==
  IF s = <<>> THEN <<cur>>
  ELSE IF Head(s) = "." THEN <<cur>> \o DotParts(Tail(s), <<>>)
  ELSE DotParts(Tail(s), Append(cur, Head(s)))

\* semver Version::parse, for versions without pre-release or build metadata.
VersionParse(t) ==
  LET parts == DotParts(t, <<>>)
  IN  IF Len(parts) = 3 /\ \A i \in 1..3 : IsNumericIdentifier(parts[i])
      THEN [kind |-> "Ok", version |-> parts]
      ELSE [kind |-> "Err"]

\* &version_str[..version_end]: panics when version_end is not a character boundary.
SliceTo(s, end) ==
  IF end > ByteLen(s) \/ ~IsCharBoundary(s, end)
  THEN [kind |-> "Panic"]
  ELSE [kind |-> "Ok", str |-> SubSeq(s, 1, CharsIn(s, end))]

LineFormatError == [kind |-> "Err", error |-> "Failed to process cargo tree line."]

VersionParseError == [kind |-> "Err", error |-> "semver parse error"]

Panic == [kind |-> "Panic"]

\* The part of process_line after the feature set is built.
ParsePackage(package, space, feature_set) ==
  LET halves == SplitAt(package, space)
  IN  IF halves.kind = "Panic" THEN Panic
      ELSE
        LET name == halves.left
            version_str == TrimStartMatches(halves.right, {" ", "v"})
            found == Find(version_str, " ")
            version_end == IF found.kind = "Some" THEN found.value
                           ELSE CharCount(version_str)
            token == SliceTo(version_str, version_end)
        IN  IF token.kind = "Panic" THEN Panic
            ELSE
              LET version == VersionParse(token.str)
              IN  IF version.kind = "Err" THEN VersionParseError
                  ELSE [kind |-> "Ok", name |-> Trim(name),
                        version |-> version.version, features |-> feature_set]

process_line(s) ==
  LET space == Find(s, " ")
      pipe == Find(s, "|")
  IN  IF space.kind = "Some" /\ pipe.kind = "Some"
      THEN
        LET halves == SplitAt(s, pipe.value)
            features_trimmed == Remove(halves.right, "|")
            feature_set == {t \in SplitOn(features_trimmed, ",", <<>>) : t # <<>>}
        IN  ParsePackage(halves.left, space.value, feature_set)
      ELSE LineFormatError


(***************************************************************************)
(* consolidate_features                                                    *)
(***************************************************************************)

\* The fold over features.values(): sets[0] intersected with the other sets.
RECURSIVE IntersectFrom(_, _, _, _)
IntersectFrom(features, po, i, acc) ==
  IF i > Len(po) THEN acc
  ELSE IntersectFrom(features, po, i + 1, acc \cap features[po[i]])

\* Variant: the fold is left out and sets[0] is taken as the common set.
common_features_first_only(features, po) == features[po[1]]

\* Variant: the fold starts from an empty set instead of sets[0].
common_features_from_empty(features, po) == IntersectFrom(features, po, 1, {})

common_features(features, po) == IntersectFrom(features, po, 2, features[po[1]])

\* Variant: the test against common_features is left out.
IsPlatformSpecific_unchecked(common, feature) == TRUE

\* Whether the partition loop records the platform for this feature.
IsPlatformSpecific(common, feature) == feature \notin common

\* The match on platform_map.get_mut(&feature): push, or insert a new Vec.
PushPlatform(pm, feature, platform) ==
  IF feature \in DOMAIN pm
  THEN [pm EXCEPT ![feature] = Append(@, platform)]
  ELSE pm @@ (feature :> <<platform>>)

\* The inner loop "for feature in pfs".  Distinct features write distinct
\* keys, so the order in which the set is iterated cannot show.
RECURSIVE PartitionSet(_, _, _, _)
PartitionSet(pm, platform, pfs, common) ==
  IF pfs = {} THEN pm
  ELSE LET feature == CHOOSE f \in pfs : TRUE
       IN  PartitionSet(IF IsPlatformSpecific(common, feature)
                        THEN PushPlatform(pm, feature, platform)
                        ELSE pm,
                        platform, pfs \ {feature}, common)

\* The outer loop "for (platform, pfs) in features", in the order po.
RECURSIVE PartitionFrom(_, _, _, _, _)
PartitionFrom(pm, features, common, po, i) ==
  IF i > Len(po) THEN pm
  ELSE PartitionFrom(PartitionSet(pm, po[i], features[po[i]], common),
                     features, common, po, i + 1)

platform_map(features, common, po) == PartitionFrom(<<>>, features, common, po, 1)

\* The match on platforms_to_features.get_mut(&key).
AddToGroup(ptf, key, feature) ==
  IF key \in DOMAIN ptf
  THEN [ptf EXCEPT ![key] = SortStrings(Append(@, feature))]
  ELSE ptf @@ (key :> <<feature>>)

\* The loop "for (feature, platforms) in platform_map", in the order fo.
RECURSIVE GroupFrom(_, _, _, _)
GroupFrom(ptf, pm, fo, i) ==
  IF i > Len(fo) THEN ptf
  ELSE GroupFrom(AddToGroup(ptf, SortStrings(pm[fo[i]]), fo[i]), pm, fo, i + 1)

platforms_to_features(pm, fo) == GroupFrom(<<>>, pm, fo, 1)

\* The closure given to sort_by.
CompareGroups(a, b) ==
  IF Len(a.platforms) # Len(b.platforms)
  THEN IF Len(a.platforms) < Len(b.platforms) THEN "Less" ELSE "Greater"
  ELSE IF Len(a.platforms) > 0
  THEN IF StrLess(a.platforms[1], b.platforms[1]) THEN "Less"
       ELSE IF StrLess(b.platforms[1], a.platforms[1]) THEN "Greater"
       ELSE "Equal"
  ELSE "Equal"

\* slice::sort_by is stable: an element stays behind the earlier elements
\* it compares Equal to.
RECURSIVE InsertGroup(_, _)
InsertGroup(v, x) ==
  IF v = <<>> THEN <<x>>
  ELSE IF CompareGroups(x, Head(v)) = "Less" THEN <<x>> \o v
  ELSE <<Head(v)>> \o InsertGroup(Tail(v), x)

RECURSIVE SortGroups(_)
SortGroups(v) ==
  IF v = <<>> THEN <<>> ELSE InsertGroup(SortGroups(SubSeq(v, 1, Len(v) - 1)), v[Len(v)])

\* Variant: the reverse after sort_by is left out.
OrderGroups_not_reversed(collected) == SortGroups(collected)

\* What follows the collect of platforms_to_features.iter(): sort_by, then reverse.
OrderGroups(collected) == Reverse(SortGroups(collected))

\* platforms_to_features.iter().map(..).collect() in the order go, then ordered.
targeted_features(ptf, go) ==
  OrderGroups([i \in 1..Len(go) |-> [platforms |-> go[i], features |-> ptf[go[i]]]])

\* common_vec: the common set collected into a Vec and sorted.
common_vec(common) == SortStrings(Collect(common))

\* The Features values consolidate_features can return for the map
\* `features`: one for each way of iterating `features` (po), platform_map
\* (fo) and platforms_to_features (go).
consolidate_features(features) ==
  UNION {
    LET common == common_features(features, po)
        pm == platform_map(features, common, po)
        features_field == common_vec(common)
    IN  UNION {
          LET ptf == platforms_to_features(pm, fo)
          IN  {[features |-> features_field,
                targeted_features |-> targeted_features(ptf, go)] :
                 go \in Orders(DOMAIN ptf)}
          : fo \in Orders(DOMAIN pm)}
    : po \in Orders(DOMAIN features)}

(***************************************************************************)
(* Names used as inputs                                                    *)
(***************************************************************************)

linux == <<"l", "i", "n", "u", "x">>

macos == <<"m", "a", "c", "o", "s">>

wasm == <<"w", "a", "s", "m">>

windows == <<"w", "i", "n", "d", "o", "w", "s">>

shared == <<"s", "h", "a", "r", "e", "d">>

onlyLinux == <<"o", "n", "l", "y", "L", "i", "n", "u", "x">>

onlyWindows == <<"o", "n", "l", "y", "W", "i", "n", "d", "o", "w", "s">>

PlatformNames == {linux, macos, wasm, windows}

FeatureNames == {shared, onlyLinux, onlyWindows}

\* Most platforms in one input of consolidate_features.
MaxPlatforms == 3

\* Most tokens in one input of process_line.
MaxTokens == 5

LineTokens ==
  {<<"a">>, <<" ">>, <<"|">>, <<"1", ".", "0", ".", "0">>, <<"v">>, <<",">>, <<"U+00E9">>}

RECURSIVE Flatten(_)
Flatten(ts) == IF ts = <<>> THEN <<>> ELSE Head(ts) \o Flatten(Tail(ts))

LineInputs == {Flatten(ts) : ts \in UNION {[1..n -> LineTokens] : n \in 0..MaxTokens}}

ConsolidateInputs ==
  UNION {[ps -> SUBSET FeatureNames] :
           ps \in {q \in SUBSET PlatformNames : q # {} /\ Cardinality(q) <= MaxPlatforms}}

(***************************************************************************)
(* SpecLine: process_line applied to one line                              *)
(***************************************************************************)

IdleLine == line = <<>> /\ parsed = None

IdleConsolidate == pkg = <<>> /\ consolidated = None

IdlePipeline ==
  /\ settings = None
  /\ triples = {}
  /\ tree_output = <<>>
  /\ calls = <<>>
  /\ triple_map = <<>>
  /\ unconsolidated = None
  /\ m = None
  /\ pc = "idle"

pipelineVars == <<settings, triples, tree_output, calls, triple_map, unconsolidated, m, pc>>

InitLine ==
  /\ line \in LineInputs
  /\ parsed = None
  /\ IdleConsolidate
  /\ IdlePipeline

ProcessLine ==
  /\ parsed = None
  /\ parsed' = process_line(line)
  /\ UNCHANGED <<line, pkg, consolidated, pipelineVars>>

NextLine == ProcessLine

SpecLine == InitLine /\ [][NextLine]_vars

(***************************************************************************)
(* SpecConsolidate: consolidate_features applied to one package            *)
(***************************************************************************)

InitConsolidate ==
  /\ pkg \in ConsolidateInputs
  /\ consolidated = None
  /\ IdleLine
  /\ IdlePipeline

Consolidate ==
  /\ consolidated = None
  /\ consolidated' \in {Some(f) : f \in consolidate_features(pkg)}
  /\ UNCHANGED <<pkg, line, parsed, pipelineVars>>

NextConsolidate == Consolidate

SpecConsolidate == InitConsolidate /\ [][NextConsolidate]_vars


(***************************************************************************)
(* find_package_id, make_package_map, run_cargo_tree, transpose_keys       *)
(***************************************************************************)

Version(major, minor, patch) == <<major, minor, patch>>

\* The package catalog handed to get_per_platform_features.
packages ==
  <<[name |-> <<"p">>, version |-> Version(<<"1">>, <<"0">>, <<"0">>), id |-> "p 1.0.0"],
    [name |-> <<"q">>, version |-> Version(<<"2">>, <<"0">>, <<"0">>), id |-> "q 2.0.0"]>>

LookupError == [kind |-> "Err", error |-> "Failed to find package."]

find_package_id(name, version, catalog) ==
  LET hits == {i \in 1..Len(catalog) :
                 catalog[i].name = name /\ catalog[i].version = version}
  IN  IF hits = {} THEN LookupError
      ELSE [kind |-> "Ok", id |-> catalog[CHOOSE i \in hits : \A j \in hits : i <= j].id]

\* Variant: the set already there is overwritten instead of united.
InsertFeatures_overwrite(package_map, id, features) == (id :> features) @@ package_map

\* The match on package_map.get_mut(&id): union with the set already there.
InsertFeatures(package_map, id, features) ==
  IF id \in DOMAIN package_map
  THEN [package_map EXCEPT ![id] = @ \cup features]
  ELSE package_map @@ (id :> features)

\* The loop of make_package_map from element i of crates on; `?` returns the
\* first error met, a panic unwinds.
RECURSIVE PackageMapFrom(_, _, _, _)
PackageMapFrom(package_map, crates, catalog, i) ==
  IF i > Len(crates) THEN [kind |-> "Ok", map |-> package_map]
  ELSE
    LET processed == process_line(crates[i])
    IN  IF processed.kind # "Ok" THEN processed
        ELSE
          LET found == find_package_id(processed.name, processed.version, catalog)
          IN  IF found.kind # "Ok" THEN found
              ELSE PackageMapFrom(InsertFeatures(package_map, found.id, processed.features),
                                  crates, catalog, i + 1)

make_package_map(crates, catalog) == PackageMapFrom(<<>>, crates, catalog, 1)

DedupeMarker == <<"(", "*", ")">>

EmptyBlob == <<"|", "|">>

\* The closure given to filter.
KeepLine(l) == ~(EndsWith(l, DedupeMarker) \/ EndsWith(l, EmptyBlob) \/ l = <<>>)

\* The HashSet `crates` of run_cargo_tree.  The output of the tool is
\* modelled by the set of its distinct lines: the loop inserts every line
\* kept into a HashSet, which forgets their order and number.
Crates(lines) == {l \in lines : KeepLine(l)}

IoError == [kind |-> "Err", error |-> "io error"]

Utf8Error == [kind |-> "Err", error |-> "FromUtf8Error"]

\* run_cargo_tree for one run of the tool; crate_vec is crates.drain().collect().
run_cargo_tree(output, crate_vec) ==
  IF ~output.launched THEN IoError
  ELSE IF ~output.success THEN Panic
  ELSE IF ~output.utf8 THEN Utf8Error
  ELSE make_package_map(crate_vec, packages)

\* Variant: a new inner map is inserted even when the package has one.
InsertTriple_replace(package_map, id, triple, features) ==
  (id :> (triple :> features)) @@ package_map

\* The match on package_map.get_mut(&pkg) of transpose_keys.
InsertTriple(package_map, id, triple, features) ==
  IF id \in DOMAIN package_map
  THEN [package_map EXCEPT ![id] = (triple :> features) @@ @]
  ELSE package_map @@ (id :> (triple :> features))

\* The inner loop "for (pkg, features) in packages" in the order ids.
RECURSIVE TransposeTriple(_, _, _, _, _)
TransposeTriple(package_map, triple, of_triple, ids, i) ==
  IF i > Len(ids) THEN package_map
  ELSE TransposeTriple(InsertTriple(package_map, ids[i], triple, of_triple[ids[i]]),
                       triple, of_triple, ids, i + 1)

\* The outer loop "for (triple, packages) in triples" in the order to.
RECURSIVE TransposeFrom(_, _, _, _, _)
TransposeFrom(package_map, by_triple, to, io, i) ==
  IF i > Len(to) THEN package_map
  ELSE TransposeFrom(TransposeTriple(package_map, to[i], by_triple[to[i]], io[to[i]], 1),
                     by_triple, to, io, i + 1)

transpose_keys(by_triple, to, io) == TransposeFrom(<<>>, by_triple, to, io, 1)

\* The ways of iterating the inner maps of by_triple.
InnerOrders(by_triple) ==
  {io \in [DOMAIN by_triple -> UNION {Orders(DOMAIN by_triple[t]) : t \in DOMAIN by_triple}] :
     \A t \in DOMAIN by_triple : io[t] \in Orders(DOMAIN by_triple[t])}

\* The maps the final loop of get_per_platform_features can build from the
\* transposed map: every package consolidated.
ConsolidateAll(transposed) ==
  {r \in [DOMAIN transposed ->
            UNION {consolidate_features(transposed[id]) : id \in DOMAIN transposed}] :
     \A id \in DOMAIN transposed : r[id] \in consolidate_features(transposed[id])}

\* The set `triples` of get_per_platform_features.
ConfiguredTriples(s) ==
  (IF s.target.kind = "Some" THEN {s.target.value} ELSE {})
    \cup (IF s.targets.kind = "Some" THEN Range(s.targets.value) ELSE {})

\* Variant: an Err of run_cargo_tree is dropped and the loop goes on.
AfterCall_error_dropped(result) == IF result.kind = "Panic" THEN "panic" ELSE "loop"

\* Where get_per_platform_features stands after a call of run_cargo_tree:
\* `?` returns the error, a panic unwinds, otherwise the loop goes on.
AfterCall(result) ==
  IF result.kind = "Ok" THEN "loop"
  ELSE IF result.kind = "Err" THEN "err"
  ELSE "panic"

(***************************************************************************)
(* Spec: get_per_platform_features                                         *)
(***************************************************************************)

Line_p_a == <<"p", " ", "1", ".", "0", ".", "0", "|", "a", "|">>

Line_p_v_b == <<"p", " ", "v", "1", ".", "0", ".", "0", "|", "b", "|">>

Line_p_none == <<"p", " ", "1", ".", "0", ".", "0", "|", "|">>

Line_q_ab == <<"q", " ", "2", ".", "0", ".", "0", "|", "a", ",", "b", "|">>

Line_p_dedupe == <<"p", " ", "1", ".", "0", ".", "0", "|", "a", "|", " ", "(", "*", ")">>

Line_empty == <<>>

Line_unknown == <<"r", " ", "1", ".", "0", ".", "0", "|", "a", "|">>

Line_no_delimiter == <<"x">>

Line_bad_version == <<"p", " ", "1", ".", "0", "|", "a", "|">>

Line_delimiter_first == <<"p", "|", "a", " ", "b", "|">>

LinePool ==
  {Line_p_a, Line_p_v_b, Line_p_none, Line_q_ab, Line_p_dedupe, Line_empty,
   Line_unknown, Line_no_delimiter, Line_bad_version, Line_delimiter_first}

\* Most distinct lines in the output of one run of the tool.
MaxLines == 2

\* What one run of cargo tree can do.
ToolRuns ==
  {[launched |-> FALSE, success |-> FALSE, utf8 |-> FALSE, lines |-> {}],
   [launched |-> TRUE, success |-> FALSE, utf8 |-> TRUE, lines |-> {}],
   [launched |-> TRUE, success |-> TRUE, utf8 |-> FALSE, lines |-> {}]}
    \cup {[launched |-> TRUE, success |-> TRUE, utf8 |-> TRUE, lines |-> ls] :
            ls \in {x \in SUBSET LinePool : Cardinality(x) <= MaxLines}}

SettingsInputs ==
  [target : {None, Some(linux)},
   targets : {None, Some(<<windows>>), Some(<<linux, windows>>)}]

Init ==
  /\ settings \in SettingsInputs
  /\ triples = ConfiguredTriples(settings)
  /\ tree_output = <<>>
  /\ calls = <<>>
  /\ triple_map = <<>>
  /\ unconsolidated = None
  /\ m = None
  /\ pc = "loop"
  /\ IdleLine
  /\ IdleConsolidate

\* One iteration of the loop over triples: cargo tree runs for a triple not
\* yet visited, and its output is made into that triple's package map.
RunCargoTree ==
  /\ pc = "loop"
  /\ \E triple \in triples, output \in ToolRuns :
       \E crate_vec \in Orders(Crates(output.lines)) :
         LET result == run_cargo_tree(output, crate_vec)
         IN  /\ tree_output' = tree_output @@ (triple :> output)
             /\ calls' = Append(calls, [triple |-> triple, result |-> result])
             /\ triple_map' = IF result.kind = "Ok"
                              THEN triple_map @@ (triple :> result.map)
                              ELSE triple_map
             /\ pc' = AfterCall(result)
             /\ triples' = IF pc' = "loop" THEN triples \ {triple} ELSE triples
  /\ UNCHANGED <<settings, unconsolidated, m, line, parsed, pkg, consolidated>>

\* After the loop: transpose_keys, consolidate_features for every package,
\* and the map m that is returned.
Finish ==
  /\ pc = "loop"
  /\ triples = {}
  /\ \E to \in Orders(DOMAIN triple_map), io \in InnerOrders(triple_map) :
       LET transposed == transpose_keys(triple_map, to, io)
       IN  /\ unconsolidated' = Some(transposed)
           /\ \E r \in ConsolidateAll(transposed) : m' = Some(r)
  /\ pc' = "done"
  /\ UNCHANGED <<settings, triples, tree_output, calls, triple_map,
                 line, parsed, pkg, consolidated>>

Next == RunCargoTree \/ Finish

Spec == Init /\ [][Next]_vars


(***************************************************************************)
(* Properties of consolidate_features (SpecConsolidate)                    *)
(***************************************************************************)

Returned == consolidated.kind = "Some"

\* seq lists exactly the elements of S, in strictly ascending order.
IsSortedSet(seq, S) ==
  /\ Range(seq) = S
  /\ \A i, j \in 1..Len(seq) : i < j => StrLess(seq[i], seq[j])

AllFeatures(features) == UNION Range(features)

EnabledOn(features, f) == {p \in DOMAIN features : f \in features[p]}

\* The places of a Features value where the feature f stands.
Places(value, f) ==
  {<<0, i>> : i \in {k \in 1..Len(value.features) : value.features[k] = f}}
    \cup UNION {
      {<<g, i>> : i \in {k \in 1..Len(value.targeted_features[g].features) :
                           value.targeted_features[g].features[k] = f}}
      : g \in 1..Len(value.targeted_features)}

C2_CommonIsIntersection ==
  Returned =>
    /\ IsSortedSet(consolidated.value.features,
                   {f \in AllFeatures(pkg) : \A p \in DOMAIN pkg : f \in pkg[p]})
    /\ \A p \in DOMAIN pkg :
         DOMAIN pkg = {p} => Range(consolidated.value.features) = pkg[p]

\* Three platforms, two common features, and a feature that is not common.
C2_Witness ==
  /\ Returned
  /\ Cardinality(DOMAIN pkg) = 3
  /\ Len(consolidated.value.features) = 2
  /\ consolidated.value.targeted_features # <<>>

\* C3: the value returned is the same for every order in which the maps are
\* iterated: every order yields the value this run returned.
C3_OrderIndependent ==
  Returned => consolidate_features(pkg) = {consolidated.value}

LinuxWindowsScenario ==
  (linux :> {shared, onlyLinux}) @@ (windows :> {shared, onlyWindows})

\* C4: of two groups, the earlier one has at least as many platforms, and
\* with equally many platforms its first platform name is not smaller; the
\* linux/windows scenario yields [windows: onlyWindows], [linux: onlyLinux].
C4_GroupOrder ==
  Returned =>
    /\ \A i, j \in 1..Len(consolidated.value.targeted_features) :
         i < j =>
           LET g == consolidated.value.targeted_features[i].platforms
               h == consolidated.value.targeted_features[j].platforms
           IN  /\ Len(g) >= Len(h)
               /\ (Len(g) = Len(h) => ~StrLess(g[1], h[1]))
    /\ (pkg = LinuxWindowsScenario =>
          consolidated.value.targeted_features =
            <<[platforms |-> <<windows>>, features |-> <<onlyWindows>>],
              [platforms |-> <<linux>>, features |-> <<onlyLinux>>]>>)

\* The linux/windows scenario has been consolidated.
C4_Witness == Returned /\ pkg = LinuxWindowsScenario

\* C5: when all platforms present report the same set, `features` is that
\* set sorted and targeted_features is empty.
C5_IdenticalSets ==
  Returned /\ (\A p, q \in DOMAIN pkg : pkg[p] = pkg[q]) =>
    /\ \A p \in DOMAIN pkg : IsSortedSet(consolidated.value.features, pkg[p])
    /\ consolidated.value.targeted_features = <<>>

\* Three platforms that all report the same two features.
C5_Witness ==
  /\ Returned
  /\ Cardinality(DOMAIN pkg) = 3
  /\ \A p \in DOMAIN pkg : pkg[p] = {shared, onlyLinux}

(***************************************************************************)
(* Properties of process_line (SpecLine)                                   *)
(***************************************************************************)

HasSpace(s) == \E i \in 1..Len(s) : s[i] = " "

HasDelimiter(s) == \E i \in 1..Len(s) : s[i] = "|"

\* C7: process_line fails with the line-format error exactly when the line
\* lacks a space or a delimiter, and otherwise returns a parsed tuple or a
\* version-parse error, never anything else.
C7_LineFormatOnly ==
  parsed # None =>
    /\ parsed = LineFormatError <=> ~(HasSpace(line) /\ HasDelimiter(line))
    /\ HasSpace(line) /\ HasDelimiter(line) =>
         parsed.kind = "Ok" \/ parsed = VersionParseError

(***************************************************************************)
(* Properties of get_per_platform_features (Spec)                          *)
(***************************************************************************)

\* What reading one line of the pool gives: whether it parses and names a
\* package of the catalog, and then the package and the features it reports.
LineFacts ==
  [l \in LinePool |->
     LET processed == process_line(l)
         found == IF processed.kind = "Ok"
                  THEN find_package_id(processed.name, processed.version, packages)
                  ELSE processed
     IN  IF found.kind = "Ok"
         THEN [resolves |-> TRUE, id |-> found.id, features |-> processed.features]
         ELSE [resolves |-> FALSE, id |-> "", features |-> {}]]

Resolves(l) == LineFacts[l].resolves

IdOf(l) == LineFacts[l].id

FeaturesOf(l) == LineFacts[l].features

\* A run of the tool on which the Platform Runner fails.
FailingRun(output) ==
  \/ ~output.launched
  \/ ~output.success
  \/ ~output.utf8
  \/ \E l \in Crates(output.lines) : ~Resolves(l)

\* C6: when the Platform Runner fails for a platform, the operation ends in
\* failure: that call is the last one, transposition and consolidation have
\* not started, and no map is returned.
C6_NoPartialResults ==
  \A i \in 1..Len(calls) :
    FailingRun(tree_output[calls[i].triple]) =>
      /\ pc \in {"err", "panic"}
      /\ i = Len(calls)
      /\ unconsolidated = None
      /\ m = None

\* The second platform fails after the first one produced a package map.
C6_Witness ==
  /\ Len(calls) = 2
  /\ calls[1].result.kind = "Ok"
  /\ DOMAIN calls[1].result.map # {}
  /\ FailingRun(tree_output[calls[2].triple])
  /\ triples # {}

\* C8: when all lines given to make_package_map parse and resolve, the map
\* returned holds exactly the identities the lines resolve to, each with the
\* union of the feature sets of the lines resolving to it, whatever the
\* order of the lines.
C8_UnionPerIdentity ==
  \A i \in 1..Len(calls) :
    LET output == tree_output[calls[i].triple]
        crates == Crates(output.lines)
    IN  output.launched /\ output.success /\ output.utf8
          /\ (\A l \in crates : Resolves(l)) =>
            /\ calls[i].result.kind = "Ok"
            /\ DOMAIN calls[i].result.map = {IdOf(l) : l \in crates}
            /\ \A id \in DOMAIN calls[i].result.map :
                 calls[i].result.map[id] =
                   UNION {FeaturesOf(l) : l \in {x \in crates : IdOf(x) = id}}

\* Two different lines for the same package, with different features, were
\* made into a package map.
C8_Witness ==
  \E i \in 1..Len(calls) :
    /\ calls[i].result.kind = "Ok"
    /\ {Line_p_a, Line_p_v_b} \subseteq Crates(tree_output[calls[i].triple].lines)

\* The inner map of a package: the platforms whose Runner result holds the
\* package, each with the set that platform reported.
InnerMap(id) ==
  [t \in {x \in DOMAIN triple_map : id \in DOMAIN triple_map[x]} |-> triple_map[t][id]]

\* C9: when every platform invocation succeeds, the keys of the map returned
\* are the identities present in at least one Runner result, and each value
\* is consolidated from the inner map that holds exactly the platforms whose
\* Runner result holds the package, with the sets they reported.
C9_KeysAndInnerMaps ==
  pc = "done" =>
    /\ DOMAIN triple_map = ConfiguredTriples(settings)
    /\ \A i \in 1..Len(calls) : triple_map[calls[i].triple] = calls[i].result.map
    /\ DOMAIN m.value = UNION {DOMAIN triple_map[t] : t \in DOMAIN triple_map}
    /\ DOMAIN unconsolidated.value = DOMAIN m.value
    /\ \A id \in DOMAIN m.value :
         /\ unconsolidated.value[id] = InnerMap(id)
         /\ m.value[id] \in consolidate_features(InnerMap(id))

\* Two platforms succeeded; one package was reported by both, another by
\* one of them only.
C9_Witness ==
  /\ pc = "done"
  /\ DOMAIN triple_map = {linux, windows}
  /\ DOMAIN triple_map[linux] = {"p 1.0.0"}
  /\ DOMAIN triple_map[windows] = {"p 1.0.0", "q 2.0.0"}

\* The packages the output of the tool lists: the lines that are neither
\* empty nor de-duplication markers, resolved.
ListedLines(output) ==
  {l \in output.lines : l # <<>> /\ ~EndsWith(l, DedupeMarker) /\ Resolves(l)}

\* The features the map returned gives a package on a platform.
Assigned(returned, id, triple) ==
  IF id \notin DOMAIN returned THEN {}
  ELSE Range(returned[id].features)
         \cup UNION {Range(g.features) :
                       g \in {x \in Range(returned[id].targeted_features) :
                                triple \in Range(x.platforms)}}

\* C10: for every platform and every package the tool's output for that
\* platform lists, the features the returned map gives the package on the
\* platform are the union of the feature blobs the tool printed for it there.
C10_NoInformationLost ==
  pc = "done" =>
    \A t \in DOMAIN tree_output :
      \A l \in ListedLines(tree_output[t]) :
        Assigned(m.value, IdOf(l), t) =
          UNION {FeaturesOf(x) :
                   x \in {y \in ListedLines(tree_output[t]) : IdOf(y) = IdOf(l)}}

=============================================================================
